---- MODULE Spec2Model ----
(***************************************************************************)
(* Model of the NBA position-classification exercise:                      *)
(*   - grade(transcript)            (grader.py)                            *)
(*   - create_classifier(filepath)  (master_agent/tools.py)                *)
(* The working directory holds two files, the ground truth                 *)
(* nba_player_stats.csv and the submission sol.csv.  grade is modelled     *)
(* statement group by statement group (pc), create_classifier as one step. *)
(*                                                                         *)
(* Conventions.  A header name of sol.csv is a tuple of one-character      *)
(* strings, so that str.lower() and the substring test are computed.       *)
(* A number the grader computes with floats is an exact rational           *)
(* <<num, den>> in lowest terms.  A Python dict is a function whose        *)
(* domain is its set of keys.  Cells of the Pos column are non-missing     *)
(* category labels.                                                        *)
(***************************************************************************)
EXTENDS Integers, Sequences, FiniteSets, TLC

\* ------------------------------------------------------------------ bounds
MaxCols == 3      \* most columns of an enumerated sol.csv
MaxRows == 3      \* most data rows of an enumerated sol.csv
MaxN    == 11     \* most rows of an enumerated nba_player_stats.csv
TailLen == 2      \* trailing ground-truth rows whose label is arbitrary

\* ------------------------------------------------------- program constants
size_tolerance == 2
MinSamples == 10

\* -------------------------------------------------------------- rationals
RECURSIVE Gcd(_, _)
Gcd(a, b) == IF b = 0 THEN a ELSE Gcd(b, a % b)

Rat(n, d) == LET g == Gcd(n, d) IN IF g = 0 THEN <<0, 1>> ELSE <<n \div g, d \div g>>
RAdd(x, y) == Rat(x[1] * y[2] + y[1] * x[2], x[2] * y[2])
RSub(x, y) == Rat(x[1] * y[2] - y[1] * x[2], x[2] * y[2])
RMul(x, y) == Rat(x[1] * y[1], x[2] * y[2])
RLeq(x, y) == x[1] * y[2] <= y[1] * x[2]
RLt(x, y)  == x[1] * y[2] < y[1] * x[2]
RMax(x, y) == IF RLeq(x, y) THEN y ELSE x
Zero == <<0, 1>>
Half == <<1, 2>>
One  == <<1, 1>>

Abs(i) == IF i < 0 THEN 0 - i ELSE i

\* int(0.8 * n) and int(0.2 * n): the double product truncated; it equals the
\* exact floor for every n a file can have
IntOf08(n) == (8 * n) \div 10
IntOf02(n) == (2 * n) \div 10
Max2(a, b) == IF a >= b THEN a ELSE b

\* ----------------------------------------------------------------- strings
\* str.lower() on the letters that occur in the enumerated header names
LowerChar(c) ==
    CASE c = "A" -> "a" [] c = "C" -> "c" [] c = "D" -> "d" [] c = "E" -> "e"
      [] c = "I" -> "i" [] c = "L" -> "l" [] c = "P" -> "p" [] c = "R" -> "r"
      [] c = "T" -> "t" [] c = "U" -> "u" [] OTHER -> c
Lower(s) == [i \in 1..Len(s) |-> LowerChar(s[i])]

\* the Python test  sub in s
Contains(s, sub) ==
    \E i \in 1..(Len(s) - Len(sub) + 1) : SubSeq(s, i, i + Len(sub) - 1) = sub

sActual    == <<"a","c","t","u","a","l">>
sPredicted == <<"p","r","e","d","i","c","t","e","d">>

hName      == <<"n","a","m","e">>
hGuess     == <<"g","u","e","s","s">>
hTruth     == <<"t","r","u","t","h">>
hActual    == <<"A","c","t","u","a","l">>
hPREDICTED == <<"P","R","E","D","I","C","T","E","D">>
hBoth      == <<"a","c","t","u","a","l","_","p","r","e","d","i","c","t","e","d">>
\* the three headers create_classifier writes
hPlayerName == <<"P","l","a","y","e","r"," ","n","a","m","e">>
hActualPos  == <<"p","l","a","y","e","r","'","s"," ","a","c","t","u","a","l"," ",
                 "p","o","s","i","t","i","o","n">>
hPredictedPos == <<"p","r","e","d","i","c","t","e","d"," ","p","o","s","i","t","i","o","n">>

HeaderPool == {hName, hGuess, hTruth, hActual, hPREDICTED, hBoth, hPredictedPos}

NoneCol == <<>>     \* Python None for actual_col / predicted_col

\* ------------------------------------------------------------------- files
Labels == {"PG", "C"}
LeagueAverage == "League Average"
PlayerNames == <<"p01", "p02", "p03", "p04", "p05", "p06", "p07", "p08",
                 "p09", "p10", "p11", "p12", "p13", "p14", "p15", "p16">>

\* A file is absent, present but not a CSV table, or a table: an ordered list
\* of column names and an ordered list of rows, each row a tuple of cells
\* aligned with the columns.
MissingFile     == [kind |-> "missing", columns |-> <<>>, rows |-> <<>>]
UnparseableFile == [kind |-> "unparseable", columns |-> <<>>, rows |-> <<>>]
Table(cols, rws) == [kind |-> "table", columns |-> cols, rows |-> rws]
NoTable == [kind |-> "none", columns |-> <<>>, rows |-> <<>>]

\* position of column name c in table t (0 when absent)
ColIndex(t, c) ==
    IF \E j \in 1..Len(t.columns) : t.columns[j] = c
    THEN CHOOSE j \in 1..Len(t.columns) : t.columns[j] = c
    ELSE 0
HasCol(t, c) == ColIndex(t, c) > 0
\* df[c].values
ColValues(t, c) == [i \in 1..Len(t.rows) |-> t.rows[i][ColIndex(t, c)]]

\* ----- enumerated sol.csv contents
\* sequences of distinct names (read_csv makes repeated names distinct)
DistinctSeqs(S, k) ==
    {s \in [1..k -> S] : \A i, j \in 1..k : i # j => s[i] # s[j]}
HeaderLists == UNION {DistinctSeqs(HeaderPool, k) : k \in 1..MaxCols}

\* any header list, no row or one row of "PG"
HeaderTables ==
    UNION {{Table(h, <<>>), Table(h, <<[j \in 1..Len(h) |-> "PG"]>>)} : h \in HeaderLists}

\* one actual and one predicted column, every content of up to MaxRows rows
ScoringTables ==
    UNION {{Table(<<hActual, hPREDICTED>>, [i \in 1..m |-> <<a[i], p[i]>>]) :
                a \in [1..m -> Labels], p \in [1..m -> Labels]} : m \in 0..MaxRows}

\* ----- enumerated nba_player_stats.csv contents
GtColumns == <<"Player", "Pos", "PTS">>
NumericColumns == {"PTS"}

\* label of row i of an n-row file: the last TailLen rows are arbitrary (tail),
\* the rows before alternate between the labels, or are all "PG" (uniform)
PosOf(n, i, uniform, tail) ==
    IF i > n - TailLen THEN tail[i - (n - TailLen)]
    ELSE IF uniform \/ i % 2 = 1 THEN "PG" ELSE "C"

\* every cell is text; the PTS cells are numerals
GtRows(n, names, uniform, tail) ==
    [i \in 1..n |-> <<names[i], PosOf(n, i, uniform, tail), "7">>]

PlainNames(n) == [i \in 1..n |-> PlayerNames[i]]

\* tables whose Player names are all distinct
GtPlain ==
    {Table(GtColumns, GtRows(n, PlainNames(n), FALSE, t)) :
        n \in 0..MaxN, t \in [1..TailLen -> Labels]}

\* a 'League Average' row at position k
LeagueNames(n, k) == [i \in 1..n |-> IF i = k THEN LeagueAverage ELSE PlayerNames[i]]
\* row i carries the Player name of the later row j
DupNames(n, i, j) == [r \in 1..n |-> IF r = i THEN PlayerNames[j] ELSE PlayerNames[r]]
DupPairs(n) == {p \in (1..n) \X (1..n) : p[1] < p[2] /\ (p[2] = p[1] + 1 \/ p[2] = n)}

GtUnclean ==
    UNION {
      {Table(GtColumns, GtRows(n, LeagueNames(n, kt[1]), FALSE, kt[2])) :
          kt \in (1..n) \X [1..TailLen -> Labels]}
      \cup
      {Table(GtColumns, GtRows(n, DupNames(n, pt[1][1], pt[1][2]), FALSE, pt[2])) :
          pt \in DupPairs(n) \X [1..TailLen -> Labels]}
      : n \in MinSamples..MaxN}

GtNoPos == Table(<<"Player", "PTS">>, <<<<"p01", "7">>, <<"p02", "7">>>>)
GtNoNumeric == Table(<<"Player", "Pos">>, <<<<"p01", "PG">>, <<"p02", "C">>>>)
\* MinSamples rows whose training rows all have one label
GtUniform ==
    Table(GtColumns, GtRows(MinSamples, PlainNames(MinSamples), TRUE,
                            [i \in 1..TailLen |-> "C"]))
GtBasic == {MissingFile, GtNoPos,
            Table(GtColumns, GtRows(5, PlainNames(5), FALSE, [i \in 1..TailLen |-> "PG"]))}
GtAll == GtBasic \cup {UnparseableFile, GtNoNumeric, GtUniform} \cup GtPlain

Transcripts == {"", "Agent executed successfully"}

\* pairs <<sol.csv, nba_player_stats.csv>> the runs start from
ScenariosFiles == {MissingFile, UnparseableFile} \X GtAll
ScenariosColumns == HeaderTables \X GtBasic
ScenariosScoring == ScoringTables \X GtAll
ScenariosProducer == {MissingFile, UnparseableFile} \X (GtAll \cup GtUnclean)
Scenarios == ScenariosFiles \cup ScenariosColumns \cup ScenariosProducer

\* ------------------------------------------------------------------- state
VARIABLES
    transcript,        \* argument of grade (never read)
    gt,                \* nba_player_stats.csv
    sol,               \* sol.csv
    tool_result,       \* what create_classifier returned ("" before the call)
    pc,                \* position of grade
    predictions_df, actual_col, predicted_col, col_i,
    nba_data, gt_read, total_rows, expected_test_size, actual_test_size,
    subscores, details, feedback_parts,
    expected_actuals, actual_values, predicted_values, accuracy_score,
    exc,               \* message of the exception being handled
    result             \* the GradingResult returned

vars == <<transcript, gt, sol, tool_result, pc, predictions_df, actual_col,
          predicted_col, col_i, nba_data, gt_read, total_rows, expected_test_size,
          actual_test_size, subscores, details, feedback_parts, expected_actuals,
          actual_values, predicted_values, accuracy_score, exc, result>>

files == <<transcript, gt, sol, tool_result>>
columnVars == <<predictions_df, actual_col, predicted_col, col_i>>
truthVars == <<nba_data, gt_read, total_rows, expected_test_size, actual_test_size>>
scoreVars == <<subscores, details, feedback_parts, expected_actuals, actual_values,
               predicted_values, accuracy_score>>

\* ------------------------------------------------------------------- dicts
EmptyDict == [k \in {} |-> Zero]
Put(d, k, v) == [x \in (DOMAIN d) \cup {k} |-> IF x = k THEN v ELSE d[x]]

\* ----------------------------------------------------------- GradingResult
NoResult ==
    [returned |-> FALSE, score |-> Zero, subscores |-> EmptyDict,
     weights |-> EmptyDict, feedback |-> <<>>, details |-> EmptyDict]
\* pydantic defaults: subscores = {}, weights = {}
GradingResult(score, subs, wts, fb, det) ==
    [returned |-> TRUE, score |-> score, subscores |-> subs,
     weights |-> wts, feedback |-> fb, details |-> det]

InitWith(scenarios, transcripts) ==
    /\ transcript \in transcripts
    /\ \E sc \in scenarios : sol = sc[1] /\ gt = sc[2]
    /\ tool_result = ""
    /\ pc = "idle"
    /\ predictions_df = NoTable
    /\ actual_col = NoneCol
    /\ predicted_col = NoneCol
    /\ col_i = 0
    /\ nba_data = NoTable
    /\ gt_read = FALSE
    /\ total_rows = 0
    /\ expected_test_size = 0
    /\ actual_test_size = 0
    /\ subscores = EmptyDict
    /\ details = EmptyDict
    /\ feedback_parts = <<>>
    /\ expected_actuals = <<>>
    /\ actual_values = <<>>
    /\ predicted_values = <<>>
    /\ accuracy_score = Zero
    /\ exc = ""
    /\ result = NoResult

\* every kind of file pair, every transcript
Init == InitWith(Scenarios, Transcripts)
\* one family of file pairs, one transcript (grade never reads it)
InitColumns == InitWith(ScenariosColumns, {"Agent executed successfully"})
InitScoring == InitWith(ScenariosScoring, {"Agent executed successfully"})
InitProducer == InitWith(ScenariosProducer, {"Agent executed successfully"})

\* ------------------------------------------------- create_classifier (tool)
\* the rows of rws at the positions in K, in order
RECURSIVE Pick(_, _, _)
Pick(rws, K, i) ==
    IF i > Len(rws) THEN <<>>
    ELSE (IF i \in K THEN <<rws[i]>> ELSE <<>>) \o Pick(rws, K, i + 1)

\* df[df["Player"] != "League Average"], then drop_duplicates(subset=['Player'],
\* keep='last'): the rows keep their order
CleanRows(t) ==
    LET pl == ColIndex(t, "Player")
        noAvg == Pick(t.rows, {i \in 1..Len(t.rows) : t.rows[i][pl] # LeagueAverage}, 1)
    IN  Pick(noAvg,
             {i \in 1..Len(noAvg) :
                 \A j \in (i + 1)..Len(noAvg) : noAvg[j][pl] # noAvg[i][pl]}, 1)

\* split_index = max(1, int(0.8 * len(X_scaled)))
SplitIndex(len) == Max2(1, IntOf08(len))

\* y[split_index:]  (positions are 1-based here)
SliceFrom(seq, start) == SubSeq(seq, start + 1, Len(seq))
SliceTo(seq, stop) == SubSeq(seq, 1, stop)
Range(seq) == {seq[i] : i \in DOMAIN seq}

\* the DataFrame written to sol.csv
ResultsFrame(player_test, y_test, y_pred) ==
    Table(<<hPlayerName, hActualPos, hPredictedPos>>,
          [i \in 1..Len(y_test) |-> <<player_test[i], y_test[i], y_pred[i]>>])

\* the outcomes of create_classifier that return before sol.csv is written;
\* "" when the run reaches model.fit with at least two classes
ClassifierError(file) ==
    IF file.kind = "missing" THEN "Error: File not found"
    ELSE IF file.kind = "unparseable" THEN "Error in create_classifier: parse error"
    ELSE IF ~HasCol(file, "Player") THEN "Error in create_classifier: 'Player'"
    ELSE IF ~HasCol(file, "Pos") THEN "Error: CSV must contain 'Player' and 'Pos' columns"
    ELSE IF \A j \in 1..Len(file.columns) : file.columns[j] \notin NumericColumns
         THEN "Error: No numeric columns found for training"
    ELSE IF Len(CleanRows(file)) < MinSamples THEN "Error: Not enough data for training"
    ELSE LET rws == CleanRows(file)
             y == [i \in 1..Len(rws) |-> rws[i][ColIndex(file, "Pos")]]
             split_index == SplitIndex(Len(rws))
         IN  IF Len(rws) - split_index = 0 THEN "Error: No test data available after split"
             ELSE IF Cardinality(Range(SliceTo(y, split_index))) < 2
                  THEN "Error in create_classifier: The number of classes has to be greater than one"
             ELSE ""

\* One call create_classifier("nba_player_stats.csv") before grading.  The
\* fitted model is any function from test rows to the classes of y_train.
CreateClassifier ==
    /\ pc = "idle"
    /\ tool_result = ""
    /\ IF ClassifierError(gt) # ""
       THEN /\ tool_result' = ClassifierError(gt)
            /\ sol' = sol
       ELSE LET rws == CleanRows(gt)
                player_names == [i \in 1..Len(rws) |-> rws[i][ColIndex(gt, "Player")]]
                y == [i \in 1..Len(rws) |-> rws[i][ColIndex(gt, "Pos")]]
                split_index == SplitIndex(Len(rws))
                y_train == SliceTo(y, split_index)
                y_test == SliceFrom(y, split_index)
                player_test == SliceFrom(player_names, split_index)
            IN  \E y_pred \in [1..Len(y_test) -> Range(y_train)] :
                    /\ sol' = ResultsFrame(player_test, y_test, y_pred)
                    /\ tool_result' = "SUCCESS: sol.csv has been created"
    /\ UNCHANGED <<transcript, gt, pc, columnVars, truthVars, scoreVars, exc, result>>

\* -------------------------------------------------------------------- grade
Get(d, k, default) == IF k \in DOMAIN d THEN d[k] ELSE default

\* f"{x:.3f}": x rounded to thousandths (no enumerated value is a tie)
Fmt3(x) == (2000 * x[1] + x[2]) \div (2 * x[2])

SizeNote(actual, expected) == <<"Test set size", actual, "expected", expected>>
SplitNote == <<"The 'actual' values don't match the expected test set (last 20% of rows)">>
AccuracyNote(acc) == <<"Classification accuracy", Fmt3(acc)>>
ErrorNote(err) == <<"Classification error", Fmt3(err)>>
MismatchNote == <<"Could not calculate accuracy due to mismatched array lengths">>
SuccessMessage == <<<<"Task completed successfully!">>>>

\* " | ".join(parts)
RECURSIVE Join(_)
Join(parts) ==
    IF Len(parts) <= 1 THEN parts
    ELSE <<Head(parts), <<" | ">>>> \o Join(Tail(parts))

\* lines 35-39
MissingFileResult ==
    GradingResult(Zero, EmptyDict, EmptyDict,
                  <<<<"sol.csv file not found. Please save your predictions to sol.csv">>>>,
                  Put(EmptyDict, "error", "missing_predictions_file"))

\* lines 57-61
MissingColumnsResult(columns) ==
    GradingResult(Zero, EmptyDict, EmptyDict,
                  <<<<"sol.csv must contain columns with 'actual' and 'predicted' in their names",
                      columns>>>>,
                  Put(Put(EmptyDict, "error", "missing_required_columns"), "columns", columns))

\* variant: the handler reports the sub-scores computed before the failure
ProcessingErrorKeepsScores(e) ==
    GradingResult(Zero, subscores, EmptyDict,
                  <<<<"Error processing predictions", e>>>>,
                  Put(Put(EmptyDict, "error", "processing_error"), "exception", e))

\* lines 145-149
ProcessingErrorResult(e) ==
    GradingResult(Zero, EmptyDict, EmptyDict,
                  <<<<"Error processing predictions", e>>>>,
                  Put(Put(EmptyDict, "error", "processing_error"), "exception", e))

\* variant: a role keeps the first header that matched it
ScanStepFirstWins(col, cols) ==
    LET col_lower == Lower(col)
    IN  IF Contains(col_lower, sActual)
        THEN (IF cols[1] = NoneCol THEN <<col, cols[2]>> ELSE cols)
        ELSE IF Contains(col_lower, sPredicted)
        THEN (IF cols[2] = NoneCol THEN <<cols[1], col>> ELSE cols)
        ELSE cols

\* one iteration of the loop of lines 49-54 on the pair <<actual_col, predicted_col>>
ScanStep(col, cols) ==
    LET col_lower == Lower(col)
    IN  IF Contains(col_lower, sActual) THEN <<col, cols[2]>>
        ELSE IF Contains(col_lower, sPredicted) THEN <<cols[1], col>>
        ELSE cols

\* variant: no tolerance, the sizes must be equal
SizeScoreExact(actual_size, expected_size) ==
    IF actual_size = expected_size THEN One ELSE Half

\* variant: a size mismatch scores 0
SizeScoreZero(actual_size, expected_size) ==
    IF Abs(actual_size - expected_size) <= size_tolerance THEN One ELSE Zero

\* line 72
SizeScore(actual_size, expected_size) ==
    IF Abs(actual_size - expected_size) <= size_tolerance THEN One ELSE Half

\* nba_data.iloc[start:]: the index labels (0-based row numbers) of the slice
ILocFrom(n, start) == [k \in 1..(n - start) |-> start + k - 1]
\* .loc[first:] on an increasing integer index: the labels >= first
LocFrom(labels, first) == SelectSeq(labels, LAMBDA l : l >= first)
\* variant: the first row of the slice is dropped by position (.iloc[1:])
ExpectedActualsDropFirst(nba, test_start_idx) ==
    LET kept == Tail(ILocFrom(Len(nba.rows), test_start_idx))
    IN  [k \in 1..Len(kept) |-> nba.rows[kept[k] + 1][ColIndex(nba, "Pos")]]

\* lines 81-82: nba_data.iloc[test_start_idx:].loc[1:, 'Pos'].values
ExpectedActuals(nba, test_start_idx) ==
    LET kept == LocFrom(ILocFrom(Len(nba.rows), test_start_idx), 1)
    IN  [k \in 1..Len(kept) |-> nba.rows[kept[k] + 1][ColIndex(nba, "Pos")]]

\* np.array_equal on two arrays of labels
ArrayEqual(a, b) == Len(a) = Len(b) /\ \A i \in 1..Len(a) : a[i] = b[i]

\* variant: the share of matching positions is the score
ActualMatchPartial(actual, expected) ==
    IF Len(actual) = Len(expected) /\ Len(actual) > 0
    THEN Rat(Cardinality({i \in 1..Len(actual) : actual[i] = expected[i]}), Len(actual))
    ELSE IF Len(actual) = Len(expected) THEN One ELSE Zero

\* lines 89-92
ActualMatchScore(actual, expected) ==
    IF Len(actual) = Len(expected)
    THEN (IF ArrayEqual(actual, expected) THEN One ELSE Zero)
    ELSE Zero

\* np.sum(actual_values == predicted_values)
CorrectPredictions(actual, predicted) ==
    Cardinality({i \in 1..Len(actual) : actual[i] = predicted[i]})

\* variant: the classification error is taken as the score
AccuracyScoreIsError(actual, predicted) ==
    IF Len(actual) = Len(predicted) /\ Len(actual) > 0
    THEN RSub(One, Rat(CorrectPredictions(actual, predicted), Len(actual)))
    ELSE Zero

\* lines 100-116: the accuracy sub-score
AccuracyScore(actual, predicted) ==
    IF Len(actual) = Len(predicted) /\ Len(actual) > 0
    THEN Rat(CorrectPredictions(actual, predicted), Len(actual))
    ELSE Zero

\* lines 120-124
Weights ==
    Put(Put(Put(EmptyDict, "test_size_correct", <<1, 5>>),
            "correct_test_split", <<3, 10>>),
        "classification_accuracy", <<1, 2>>)
WeightKeys == <<"test_size_correct", "correct_test_split", "classification_accuracy">>

\* line 127: sum(subscores[key] * weights[key] for key in weights.keys())
RECURSIVE WeightedSum(_, _, _)
WeightedSum(subs, wts, keys) ==
    IF keys = <<>> THEN Zero
    ELSE RAdd(RMul(subs[Head(keys)], wts[Head(keys)]), WeightedSum(subs, wts, Tail(keys)))

BonusThreshold == <<19, 20>>     \* 0.95
\* line 130
AllPerfect(subs) == \A k \in DOMAIN subs : RLeq(BonusThreshold, subs[k])

\* lines 127-131
FinalScore(subs, acc) ==
    LET final_score == WeightedSum(subs, Weights, WeightKeys)
    IN  IF AllPerfect(subs) THEN RMax(final_score, acc) ELSE final_score

\* line 140
Feedback(parts) == IF parts # <<>> THEN Join(parts) ELSE SuccessMessage

\* the statement groups inside try: (lines 41-143); an exception raised at any
\* other position would leave grade
InTry(position) ==
    position \in {"load_predictions", "scan", "check_columns", "load_truth", "size",
                  "expected", "split", "accuracy", "combine"}

\* raise e at the current position
Raise(e) ==
    /\ exc' = e
    /\ pc' = IF InTry(pc) THEN "except" ELSE "raised"

\* variant: no early return when sol.csv is absent
CheckExistsFallsThrough ==
    /\ pc = "idle"
    /\ subscores' = EmptyDict
    /\ details' = EmptyDict
    /\ feedback_parts' = <<>>
    /\ pc' = "load_predictions"
    /\ UNCHANGED <<files, columnVars, truthVars, expected_actuals, actual_values,
                   predicted_values, accuracy_score, exc, result>>

\* lines 28-39: the call, and the existence check of sol.csv
CheckExists ==
    /\ pc = "idle"
    /\ subscores' = EmptyDict
    /\ details' = EmptyDict
    /\ feedback_parts' = <<>>
    /\ IF sol.kind = "missing"
       THEN /\ result' = MissingFileResult
            /\ pc' = "done"
       ELSE /\ result' = result
            /\ pc' = "load_predictions"
    /\ UNCHANGED <<files, columnVars, truthVars, expected_actuals, actual_values,
                   predicted_values, accuracy_score, exc>>

\* lines 43-47: pd.read_csv('sol.csv')
LoadPredictions ==
    /\ pc = "load_predictions"
    /\ IF sol.kind = "table"
       THEN /\ predictions_df' = sol
            /\ actual_col' = NoneCol
            /\ predicted_col' = NoneCol
            /\ col_i' = 1
            /\ pc' = "scan"
            /\ exc' = exc
       ELSE /\ Raise("Error tokenizing data")
            /\ UNCHANGED columnVars
    /\ UNCHANGED <<files, truthVars, scoreVars, result>>

\* lines 49-54: one iteration of the loop over predictions_df.columns
ScanColumn ==
    /\ pc = "scan"
    /\ col_i <= Len(predictions_df.columns)
    /\ LET cols == ScanStep(predictions_df.columns[col_i], <<actual_col, predicted_col>>)
       IN  /\ actual_col' = cols[1]
           /\ predicted_col' = cols[2]
    /\ col_i' = col_i + 1
    /\ UNCHANGED <<files, pc, predictions_df, truthVars, scoreVars, exc, result>>

\* lines 56-61, after the loop
CheckColumns ==
    /\ pc = "scan"
    /\ col_i > Len(predictions_df.columns)
    /\ IF actual_col = NoneCol \/ predicted_col = NoneCol
       THEN /\ result' = MissingColumnsResult(predictions_df.columns)
            /\ pc' = "done"
       ELSE /\ result' = result
            /\ pc' = "load_truth"
    /\ UNCHANGED <<files, columnVars, truthVars, scoreVars, exc>>

\* lines 64-65: pd.read_csv('nba_player_stats.csv')
LoadGroundTruth ==
    /\ pc = "load_truth"
    /\ gt_read' = TRUE
    /\ IF gt.kind = "table"
       THEN /\ nba_data' = gt
            /\ total_rows' = Len(gt.rows)
            /\ pc' = "size"
            /\ exc' = exc
       ELSE /\ Raise(IF gt.kind = "missing"
                     THEN "No such file or directory: 'nba_player_stats.csv'"
                     ELSE "Error tokenizing data")
            /\ UNCHANGED <<nba_data, total_rows>>
    /\ UNCHANGED <<files, columnVars, expected_test_size, actual_test_size, scoreVars, result>>

\* lines 68-76
SizeCheck ==
    /\ pc = "size"
    /\ expected_test_size' = IntOf02(total_rows)
    /\ actual_test_size' = Len(predictions_df.rows)
    /\ LET size_score == SizeScore(actual_test_size', expected_test_size')
       IN  /\ subscores' = Put(subscores, "test_size_correct", size_score)
           /\ feedback_parts' =
                 IF RLt(size_score, One)
                 THEN Append(feedback_parts, SizeNote(actual_test_size', expected_test_size'))
                 ELSE feedback_parts
    /\ pc' = "expected"
    /\ UNCHANGED <<files, columnVars, nba_data, gt_read, total_rows, details,
                   expected_actuals, actual_values, predicted_values, accuracy_score,
                   exc, result>>

\* lines 79-82
ExpectedTestSet ==
    /\ pc = "expected"
    /\ IF HasCol(nba_data, "Pos")
       THEN /\ expected_actuals' = ExpectedActuals(nba_data, IntOf08(total_rows))
            /\ pc' = "split"
            /\ exc' = exc
       ELSE /\ Raise("'Pos'")
            /\ UNCHANGED expected_actuals
    /\ UNCHANGED <<files, columnVars, truthVars, subscores, details, feedback_parts,
                   actual_values, predicted_values, accuracy_score, result>>

\* lines 85-97
SplitCheck ==
    /\ pc = "split"
    /\ actual_values' = ColValues(predictions_df, actual_col)
    /\ predicted_values' = ColValues(predictions_df, predicted_col)
    /\ LET actual_match_score == ActualMatchScore(actual_values', expected_actuals)
       IN  /\ subscores' = Put(subscores, "correct_test_split", actual_match_score)
           /\ feedback_parts' =
                 IF actual_match_score = Zero
                 THEN Append(feedback_parts, SplitNote)
                 ELSE feedback_parts
    /\ pc' = "accuracy"
    /\ UNCHANGED <<files, columnVars, truthVars, details, expected_actuals,
                   accuracy_score, exc, result>>

\* lines 100-117
AccuracyCheck ==
    /\ pc = "accuracy"
    /\ accuracy_score' = AccuracyScore(actual_values, predicted_values)
    /\ subscores' = Put(subscores, "classification_accuracy", accuracy_score')
    /\ IF Len(actual_values) = Len(predicted_values) /\ Len(actual_values) > 0
       THEN /\ details' =
                 Put(Put(Put(Put(details, "accuracy", accuracy_score'),
                             "classification_error", RSub(One, accuracy_score')),
                         "correct_predictions",
                         CorrectPredictions(actual_values, predicted_values)),
                     "total_predictions", Len(actual_values))
            /\ feedback_parts' =
                 feedback_parts \o <<AccuracyNote(accuracy_score'),
                                     ErrorNote(RSub(One, accuracy_score'))>>
       ELSE /\ details' = details
            /\ feedback_parts' = Append(feedback_parts, MismatchNote)
    /\ pc' = "combine"
    /\ UNCHANGED <<files, columnVars, truthVars, expected_actuals, actual_values,
                   predicted_values, exc, result>>

\* lines 120-142
Combine ==
    /\ pc = "combine"
    /\ details' = Put(Put(details, "test_set_size", actual_test_size),
                      "expected_test_size", expected_test_size)
    /\ result' = GradingResult(FinalScore(subscores, accuracy_score), subscores, Weights,
                               Feedback(feedback_parts), details')
    /\ pc' = "done"
    /\ UNCHANGED <<files, columnVars, truthVars, subscores, feedback_parts,
                   expected_actuals, actual_values, predicted_values, accuracy_score, exc>>

\* lines 144-149: except Exception as e
HandleException ==
    /\ pc = "except"
    /\ result' = ProcessingErrorResult(exc)
    /\ pc' = "done"
    /\ UNCHANGED <<files, columnVars, truthVars, scoreVars, exc>>

Next ==
    \/ CreateClassifier
    \/ CheckExists
    \/ LoadPredictions
    \/ ScanColumn
    \/ CheckColumns
    \/ LoadGroundTruth
    \/ SizeCheck
    \/ ExpectedTestSet
    \/ SplitCheck
    \/ AccuracyCheck
    \/ Combine
    \/ HandleException

Spec == Init /\ [][Next]_vars
\* the same program started from one family of files
SpecColumns == InitColumns /\ [][Next]_vars
SpecScoring == InitScoring /\ [][Next]_vars
SpecProducer == InitProducer /\ [][Next]_vars

\* ================================================================== claims
Returned == pc = "done"
\* grade returned the result of lines 136-142
Scored == pc = "done" /\ "classification_accuracy" \in DOMAIN result.subscores
ErrorOf(r) == Get(r.details, "error", "")

\* C1: grade never raises to its caller: every call ends with a GradingResult,
\* and when a step after the existence check failed the result has score 0.0,
\* details.error = "processing_error" with the exception message, and none of
\* the sub-scores computed before the failure.
C1_NeverRaises ==
    /\ pc # "raised"
    /\ Returned => result.returned
    /\ (Returned /\ exc # "") =>
          /\ result.score = Zero
          /\ ErrorOf(result) = "processing_error"
          /\ Get(result.details, "exception", "") = exc
          /\ result.subscores = EmptyDict
          /\ result.weights = EmptyDict
\* a failure (no 'Pos' column) after test_size_correct was computed
C1_Witness ==
    /\ Returned
    /\ exc = "'Pos'"
    /\ "test_size_correct" \in DOMAIN subscores
    /\ transcript # ""

\* C2: with sol.csv absent grade returns score 0.0, details.error =
\* "missing_predictions_file", empty subscores and weights, whatever the ground
\* truth file is, and it never reads the ground-truth file.
C2_MissingFileTerminal ==
    (Returned /\ sol.kind = "missing") =>
        /\ result.returned
        /\ result.score = Zero
        /\ ErrorOf(result) = "missing_predictions_file"
        /\ result.subscores = EmptyDict
        /\ result.weights = EmptyDict
        /\ ~gt_read
        /\ nba_data = NoTable
\* sol.csv absent while a valid ground-truth table is present
C2_Witness ==
    /\ Returned
    /\ sol.kind = "missing"
    /\ gt.kind = "table"
    /\ HasCol(gt, "Pos")
    /\ Len(gt.rows) >= MinSamples

\* the headers of a list whose lower-cased name contains sub
Matching(columns, sub) ==
    {j \in 1..Len(columns) : Contains(Lower(columns[j]), sub)}

\* C3 (as claimed): for a sol.csv that parses, grade returns
\* "missing_required_columns" exactly when no header contains "actual" or no
\* header contains "predicted"; otherwise it proceeds to scoring.
C3_MissingColumnsIffNoMatch ==
    (Returned /\ predictions_df.kind = "table") =>
        (ErrorOf(result) = "missing_required_columns"
           <=> (Matching(predictions_df.columns, sActual) = {}
                \/ Matching(predictions_df.columns, sPredicted) = {}))

FirstOf(columns, S) == IF S = {} THEN NoneCol
                       ELSE columns[CHOOSE j \in S : \A k \in S : j <= k]
LastOf(columns, S) == IF S = {} THEN NoneCol
                      ELSE columns[CHOOSE j \in S : \A k \in S : j >= k]
ScanDone == pc \notin {"idle", "load_predictions", "except", "raised"}
                /\ predictions_df.kind = "table"
                /\ col_i > Len(predictions_df.columns)

\* C4 (as claimed): the column used for each role is the first header, in file
\* order, whose lower-cased name contains "actual" (resp. "predicted").
C4_FirstMatchWins ==
    ScanDone =>
        /\ actual_col = FirstOf(predictions_df.columns,
                                Matching(predictions_df.columns, sActual))
        /\ predicted_col = FirstOf(predictions_df.columns,
                                   Matching(predictions_df.columns, sPredicted))

\* C4 (amended): the column used as 'actual' is the LAST header whose
\* lower-cased name contains "actual"; the column used as 'predicted' is the
\* last header whose lower-cased name contains "predicted" and does not
\* contain "actual"; on the scoring path the two sequences are those columns.
C4_LastMatchWins ==
    /\ ScanDone =>
          /\ actual_col = LastOf(predictions_df.columns,
                                 Matching(predictions_df.columns, sActual))
          /\ predicted_col = LastOf(predictions_df.columns,
                                    Matching(predictions_df.columns, sPredicted)
                                      \ Matching(predictions_df.columns, sActual))
    /\ Scored =>
          /\ actual_values = ColValues(predictions_df, actual_col)
          /\ predicted_values = ColValues(predictions_df, predicted_col)
\* scoring reached with two headers matching "actual" and two matching "predicted"
C4_Witness ==
    /\ Scored
    /\ Cardinality(Matching(predictions_df.columns, sActual)) >= 2
    /\ actual_col # FirstOf(predictions_df.columns,
                            Matching(predictions_df.columns, sActual))

\* the ground truth the grader loaded, its row count and its boundary
PosColumn == ColValues(nba_data, "Pos")
Boundary == (8 * total_rows) \div 10
ExpectedBuilt == pc \in {"split", "accuracy", "combine"} \/ Scored

\* C5 (as claimed): the expected held-out sequence is the 'Pos' values of rows
\* [boundary, n) with the first row of that slice excluded, of length
\* n - floor(0.8*n) - 1 whenever the held-out range is not empty.
C5_FirstRowExcluded ==
    ExpectedBuilt =>
        /\ expected_actuals = SubSeq(PosColumn, Boundary + 2, total_rows)
        /\ (total_rows - Boundary > 0 =>
               Len(expected_actuals) = total_rows - Boundary - 1)

\* C5 (amended): the boundary is floor(0.8*n) and the expected held-out
\* sequence is the 'Pos' values, in file order, of the rows of [boundary, n)
\* whose 0-based row number is at least 1: the whole slice, of length
\* n - floor(0.8*n), for every n >= 2; empty for n = 1 (the slice is row 0
\* alone) and for n = 0, without raising.
C5_ExpectedHeldOut ==
    ExpectedBuilt =>
        /\ total_rows = Len(nba_data.rows)
        /\ expected_actuals = SubSeq(PosColumn, Max2(Boundary, 1) + 1, total_rows)
        /\ (total_rows >= 2 => /\ Len(expected_actuals) = total_rows - Boundary
                                /\ expected_actuals[1] = PosColumn[Boundary + 1])
        /\ (total_rows <= 1 => expected_actuals = <<>>)
        /\ exc = ""
\* a ten-row file: boundary 8, both rows of the slice are expected
C5_Witness ==
    /\ pc = "split"
    /\ total_rows = 10
    /\ Len(expected_actuals) = 2

SubmittedActuals == ColValues(predictions_df, actual_col)
SubmittedPredicted == ColValues(predictions_df, predicted_col)
SplitScored == "correct_test_split" \in DOMAIN subscores
\* number of positions where two sequences of equal length differ
Differences(a, b) == Cardinality({i \in 1..Len(a) : a[i] # b[i]})

\* C6: correct_test_split is 1.0 exactly when the submission's actual column
\* is the expected held-out sequence (same length, values and order), and 0.0
\* otherwise: there is no partial credit.
C6_SplitAllOrNothing ==
    /\ SplitScored =>
          /\ subscores["correct_test_split"] \in {Zero, One}
          /\ subscores["correct_test_split"] = One <=> SubmittedActuals = expected_actuals
    /\ Scored => result.subscores["correct_test_split"] = subscores["correct_test_split"]
\* same length, one position differs: 0.0
C6_Witness ==
    /\ Scored
    /\ Len(SubmittedActuals) = Len(expected_actuals)
    /\ Len(expected_actuals) >= 2
    /\ Differences(SubmittedActuals, expected_actuals) = 1
    /\ result.subscores["correct_test_split"] = Zero

AllRowsPredicted ==
    \A i \in 1..Len(predictions_df.rows) : SubmittedPredicted[i] = SubmittedActuals[i]
OthersPerfect ==
    /\ RLeq(BonusThreshold, result.subscores["test_size_correct"])
    /\ RLeq(BonusThreshold, result.subscores["correct_test_split"])

\* C7 (as claimed): every scored submission whose predicted value equals its
\* actual value on every row, one with zero data rows included, has
\* classification_accuracy 1.0, and final score 1.0 when the two other
\* sub-scores are >= 0.95.
C7_PerfectPredictions ==
    (Scored /\ AllRowsPredicted) =>
        /\ result.subscores["classification_accuracy"] = One
        /\ OthersPerfect => result.score = One

\* C7 (amended): every scored submission with at least one data row whose
\* predicted value equals its actual value on every row has
\* classification_accuracy 1.0, and final score 1.0 when the two other
\* sub-scores are >= 0.95; with zero data rows classification_accuracy is 0.0.
C7_PerfectPredictionsNonEmpty ==
    /\ (Scored /\ AllRowsPredicted /\ Len(predictions_df.rows) > 0) =>
          /\ result.subscores["classification_accuracy"] = One
          /\ OthersPerfect => result.score = One
    /\ (Scored /\ Len(predictions_df.rows) = 0) =>
          result.subscores["classification_accuracy"] = Zero
\* a non-empty, all-correct submission of the expected split
C7_Witness ==
    /\ Scored
    /\ Len(predictions_df.rows) >= 2
    /\ AllRowsPredicted
    /\ OthersPerfect
    /\ result.score = One

WeightedScore(r) ==
    RAdd(RAdd(RMul(<<1, 5>>, r.subscores["test_size_correct"]),
              RMul(<<3, 10>>, r.subscores["correct_test_split"])),
         RMul(<<1, 2>>, r.subscores["classification_accuracy"]))
AllAtLeastThreshold(r) ==
    /\ RLeq(BonusThreshold, r.subscores["test_size_correct"])
    /\ RLeq(BonusThreshold, r.subscores["correct_test_split"])
    /\ RLeq(BonusThreshold, r.subscores["classification_accuracy"])

NotesBelowMaximum(r) ==
    (IF RLt(r.subscores["test_size_correct"], One)
     THEN <<SizeNote(actual_test_size, expected_test_size)>> ELSE <<>>)
    \o (IF RLt(r.subscores["correct_test_split"], One) THEN <<SplitNote>> ELSE <<>>)
    \o (IF RLt(r.subscores["classification_accuracy"], One)
        THEN (IF Len(actual_values) > 0
              THEN <<AccuracyNote(r.subscores["classification_accuracy"]),
                     ErrorNote(RSub(One, r.subscores["classification_accuracy"]))>>
              ELSE <<MismatchNote>>)
        ELSE <<>>)

\* C9 (as claimed): the feedback is the ' | '-joined notes of exactly the
\* sub-scores below their maximum, and "Task completed successfully!" when
\* all three sub-scores are at their maximum.
C9_FeedbackOnlyBelowMaximum ==
    Scored =>
        result.feedback = IF NotesBelowMaximum(result) = <<>> THEN SuccessMessage
                          ELSE Join(NotesBelowMaximum(result))

ProducerSucceeded == tool_result = "SUCCESS: sol.csv has been created"

\* C10 (as claimed): whenever create_classifier wrote sol.csv, its split index
\* is the grader's boundary floor(0.8 * raw row count), the actual-position
\* column it wrote is the expected held-out sequence of the same file, and
\* grading gives correct_test_split = 1.0 and test_size_correct = 1.0.
C10_ProducerAgreesWithGrader ==
    ProducerSucceeded =>
        /\ SplitIndex(Len(CleanRows(gt))) = IntOf08(Len(gt.rows))
        /\ ColValues(sol, hActualPos) = ExpectedActuals(gt, IntOf08(Len(gt.rows)))
        /\ Scored => /\ result.subscores["correct_test_split"] = One
                      /\ result.subscores["test_size_correct"] = One

\* floor(0.2 * n) for the ground truth the grader loaded
ExpectedTestSize == (2 * total_rows) \div 10

\* C11: the two sub-scores about the split are consistent: the expected
\* held-out sequence is never more than size_tolerance rows away from
\* expected_test_size = floor(0.2*n), so whenever correct_test_split = 1.0
\* then test_size_correct = 1.0 (the exact split never gets the 0.5 penalty).
C11_ExactSplitHasCorrectSize ==
    /\ ExpectedBuilt =>
          /\ expected_test_size = ExpectedTestSize
          /\ Abs(Len(expected_actuals) - ExpectedTestSize) <= size_tolerance
    /\ (SplitScored /\ subscores["correct_test_split"] = One) =>
          subscores["test_size_correct"] = One
    /\ (Scored /\ result.subscores["correct_test_split"] = One) =>
          result.subscores["test_size_correct"] = One
\* the exact split of a file whose held-out slice is longer than floor(0.2*n)
C11_Witness ==
    /\ Scored
    /\ result.subscores["correct_test_split"] = One
    /\ result.subscores["test_size_correct"] = One
    /\ Len(expected_actuals) >= 2
    /\ Len(expected_actuals) > expected_test_size

====
